---------------------------- MODULE Spec2Model ----------------------------
(***************************************************************************)
(* Roundbuilder: a bar-round simulator (src/src/App.tsx).                  *)
(*                                                                         *)
(* The React component App owns the state (phase, orders, queue, clock,    *)
(* remaining, timeline, result); every handler runs to completion on one   *)
(* user event, so each handler is one atomic action.  The engine functions *)
(* (tempAt, dilutionAt, sortByFinishQueue, scoreRound, orderPenalty) are   *)
(* pure and are operators.                                                 *)
(*                                                                         *)
(* Numbers.  Seconds (baseFinishSec, clock, waitSec, finishedAt,           *)
(* windowSec) and catalog temperatures are integers in the source and stay *)
(* integers.  Every other number of the source is a real; it is held in    *)
(* fixed point as an integer count of 1/Scale (temperatures, dilutions,    *)
(* penalty values, scores).  0.0055 is 55, 0.6 is 6000, 100 is 1000000.    *)
(***************************************************************************)
EXTENDS Integers, Sequences, FiniteSets, TLC

VARIABLES
    phase,      \* 'SETUP' | 'RUNNING' | 'RESULTS'
    orders,     \* Drink[]: the catalog
    queue,      \* Category[]: the chosen category priority
    clock,      \* simulated seconds since the round started
    remaining,  \* Drink[]: not finished yet
    timeline,   \* FinishedDrink[]: finished, in finishing order
    result,     \* {score, windowSec, totalSec, breakdown} | null
    args,       \* the arguments of an engine function evaluated on its own
    ret,        \* what that evaluation returned; a list or a number is
                \* held as [value |-> it]
    auto        \* the state of the auto-sequential variant of the component
                \* (phase, orders, queue, cursor, timeline, result) where it
                \* runs beside this one, else undefined

vars == <<phase, orders, queue, clock, remaining, timeline, result, args, ret,
          auto>>

\* ------------------------------------------------------------------------
\* Representation of numbers and of null / undefined

\* One unit of the fixed-point reals is 1/Scale.
Scale == 10 ^ 4

\* null (the initial `result`) and undefined (no value).
Null == [null |-> TRUE]

Undefined == [undefined |-> TRUE]

Max(a, b) == IF a >= b THEN a ELSE b

Min(a, b) == IF a <= b THEN a ELSE b

Abs(a) == IF a < 0 THEN 0 - a ELSE a

\* ------------------------------------------------------------------------
\* types.ts

Category == {"STRAIGHT_UP", "ON_THE_ROCKS", "NON_CHILLED"}

\* ------------------------------------------------------------------------
\* The physical model

\* Math.exp(-t / tauSec) in units of 1/Scale, for t >= 0: the alternating
\* series 1 - x + x^2/2! - x^3/3! + ... of x = t/tauSec, each term computed
\* from the one before and rounded down, summed until the terms vanish.
RECURSIVE ExpSeries(_, _, _, _)
ExpSeries(t, tauSec, k, term) ==
    IF term = 0 THEN 0
    ELSE term - ExpSeries(t, tauSec, k + 1, (term * t) \div (tauSec * k))

ExpNeg(t, tauSec) == ExpSeries(t, tauSec, 1, Scale)

\* tempAt with the difference taken the other way round, ambient - T0.
tempAtMutant(waitSec, T0, ambient, tauSec) ==
    LET t == Max(0, waitSec)
    IN  ambient * Scale + (ambient - T0) * ExpNeg(t, tauSec)

\* tempAt: T0 and ambient in whole degrees, the result in 1/Scale degrees.
tempAt(waitSec, T0, ambient, tauSec) ==
    LET t == Max(0, waitSec)
    IN  ambient * Scale + (T0 - ambient) * ExpNeg(t, tauSec)

\* dilutionAt without Math.max(0, ...).
dilutionAtMutant(waitSec, surface) ==
    LET rate == IF surface = "large" THEN 40
                ELSE IF surface = "crushed" THEN 80
                ELSE 55
    IN  Min(6000, waitSec * rate)

\* dilutionAt with the rate of crushed ice for large ice too.
dilutionAtLargeMutant(waitSec, surface) ==
    LET rate == IF surface = "large" THEN 80
                ELSE IF surface = "crushed" THEN 80
                ELSE 55
    IN  Min(6000, Max(0, waitSec * rate))

\* dilutionAt: the rates 0.004, 0.008, 0.0055 and the cap 0.6 in 1/Scale.
dilutionAt(waitSec, surface) ==
    LET rate == IF surface = "large" THEN 40
                ELSE IF surface = "crushed" THEN 80
                ELSE 55
    IN  Min(6000, Max(0, waitSec * rate))

\* ------------------------------------------------------------------------
\* The catalog and the queue builder

\* recommendedOrder with its first two categories exchanged.
recommendedOrderMutant == <<"ON_THE_ROCKS", "NON_CHILLED", "STRAIGHT_UP">>

recommendedOrder == <<"NON_CHILLED", "ON_THE_ROCKS", "STRAIGHT_UP">>

\* generateOrders with the ice of the Whiskey Highball copied to the Gin &
\* Tonic.
generateOrdersMutant ==
    << [id |-> "1", name |-> "Martini", category |-> "STRAIGHT_UP",
        baseFinishSec |-> 12, startTempC |-> -4],
       [id |-> "2", name |-> "Manhattan", category |-> "STRAIGHT_UP",
        baseFinishSec |-> 12, startTempC |-> -3],
       [id |-> "3", name |-> "Old Fashioned", category |-> "ON_THE_ROCKS",
        baseFinishSec |-> 10, startTempC |-> 0, idealDilution |-> 3300,
        iceSurface |-> "large"],
       [id |-> "4", name |-> "Whiskey Highball", category |-> "ON_THE_ROCKS",
        baseFinishSec |-> 8, startTempC |-> 0, idealDilution |-> 3300,
        iceSurface |-> "standard"],
       [id |-> "5", name |-> "Gin & Tonic", category |-> "ON_THE_ROCKS",
        baseFinishSec |-> 8, startTempC |-> 0, idealDilution |-> 3300,
        iceSurface |-> "standard"],
       [id |-> "6", name |-> "Beer", category |-> "NON_CHILLED",
        baseFinishSec |-> 5, startTempC |-> 6],
       [id |-> "7", name |-> "White Wine", category |-> "NON_CHILLED",
        baseFinishSec |-> 5, startTempC |-> 7] >>

\* The optional fields idealDilution and iceSurface are present only on the
\* drinks that set them.
generateOrders ==
    << [id |-> "1", name |-> "Martini", category |-> "STRAIGHT_UP",
        baseFinishSec |-> 12, startTempC |-> -4],
       [id |-> "2", name |-> "Manhattan", category |-> "STRAIGHT_UP",
        baseFinishSec |-> 12, startTempC |-> -3],
       [id |-> "3", name |-> "Old Fashioned", category |-> "ON_THE_ROCKS",
        baseFinishSec |-> 10, startTempC |-> 0, idealDilution |-> 3300,
        iceSurface |-> "large"],
       [id |-> "4", name |-> "Whiskey Highball", category |-> "ON_THE_ROCKS",
        baseFinishSec |-> 8, startTempC |-> 0, idealDilution |-> 3300,
        iceSurface |-> "standard"],
       [id |-> "5", name |-> "Gin & Tonic", category |-> "ON_THE_ROCKS",
        baseFinishSec |-> 8, startTempC |-> 0, idealDilution |-> 3300,
        iceSurface |-> "crushed"],
       [id |-> "6", name |-> "Beer", category |-> "NON_CHILLED",
        baseFinishSec |-> 5, startTempC |-> 6],
       [id |-> "7", name |-> "White Wine", category |-> "NON_CHILLED",
        baseFinishSec |-> 5, startTempC |-> 7] >>

\* orderIndex.get(c) ?? 99: new Map(queue.map((c, i) => [c, i])) keeps the
\* last index of a category that occurs twice.  Indices count from 0.
orderIndex(q, c) ==
    LET at == {i \in 1..Len(q) : q[i] = c}
    IN  IF at = {} THEN 99
        ELSE (CHOOSE i \in at : \A j \in at : j <= i) - 1

\* The comparator of sortByFinishQueue: negative, zero or positive.
compareDrinks(a, b, q) ==
    LET ia == orderIndex(q, a.category)
        ib == orderIndex(q, b.category)
    IN  IF ia # ib THEN ia - ib ELSE a.baseFinishSec - b.baseFinishSec

\* InsertSorted putting an element before the placed elements it ties with.
RECURSIVE InsertSortedMutant(_, _, _)
InsertSortedMutant(s, d, q) ==
    IF s = <<>> THEN <<d>>
    ELSE IF compareDrinks(s[Len(s)], d, q) < 0 THEN Append(s, d)
    ELSE Append(InsertSortedMutant(SubSeq(s, 1, Len(s) - 1), d, q), s[Len(s)])

\* Array.prototype.sort is stable: an element goes after every element
\* already placed that does not compare greater than it.
RECURSIVE InsertSorted(_, _, _)
InsertSorted(s, d, q) ==
    IF s = <<>> THEN <<d>>
    ELSE IF compareDrinks(s[Len(s)], d, q) <= 0 THEN Append(s, d)
    ELSE Append(InsertSorted(SubSeq(s, 1, Len(s) - 1), d, q), s[Len(s)])

RECURSIVE SortPrefix(_, _, _)
SortPrefix(drinks, n, q) ==
    IF n = 0 THEN <<>>
    ELSE InsertSorted(SortPrefix(drinks, n - 1, q), drinks[n], q)

sortByFinishQueue(drinks, q) == SortPrefix(drinks, Len(drinks), q)

\* The caller's array after the call: [...drinks] sorts a copy.
drinksAfterSort(drinks, q) == drinks

\* ------------------------------------------------------------------------
\* Scoring

\* The nested loops of orderPenalty: the pairs i < j of chosen whose
\* positions in reco are out of order (pos.get(c) ?? 0).
posIn(reco, c) ==
    LET at == {i \in 1..Len(reco) : reco[i] = c}
    IN  IF at = {} THEN 0
        ELSE (CHOOSE i \in at : \A j \in at : j <= i) - 1

\* orderPenalty comparing neighbours only: j = i + 1 for j from i + 1 on.
orderPenaltyMutant(reco, chosen) ==
    LET inversions ==
            Cardinality({p \in (1..Len(chosen)) \X (1..Len(chosen)) :
                            /\ p[1] + 1 = p[2]
                            /\ posIn(reco, chosen[p[1]]) > posIn(reco, chosen[p[2]])})
    IN  inversions * 6

orderPenalty(reco, chosen) ==
    LET inversions ==
            Cardinality({p \in (1..Len(chosen)) \X (1..Len(chosen)) :
                            /\ p[1] < p[2]
                            /\ posIn(reco, chosen[p[1]]) > posIn(reco, chosen[p[2]])})
    IN  inversions * 6

\* The two loops over finished and over each drink's penalties, as the
\* total that they subtract from the score.
RECURSIVE SumValues(_)
SumValues(ps) ==
    IF ps = <<>> THEN 0 ELSE ps[1].value + SumValues(Tail(ps))

RECURSIVE SumPenalties(_)
SumPenalties(finished) ==
    IF finished = <<>> THEN 0
    ELSE SumValues(finished[1].penalties) + SumPenalties(Tail(finished))

\* (windowSec - 60) * 0.2 in 1/Scale.
windowPenalty(windowSec) == ((windowSec - 60) * Scale) \div 5

\* windowApplies with the boundary included: windowSec >= 60.
windowAppliesMutant(windowSec) == windowSec >= 60

windowApplies(windowSec) == windowSec > 60

\* clampScore without the upper limit: Math.max(0, score).
clampScoreMutant(score) == Max(0, score)

\* Math.max(0, Math.min(100, score))
clampScore(score) == Max(0, Min(100 * Scale, score))

scoreRound(finished, windowSec, chosenOrder) ==
    LET p == windowPenalty(windowSec)
        b1 == IF windowApplies(windowSec)
              THEN <<[label |-> "Long window between first/last", value |-> p]>>
              ELSE <<>>
        s1 == IF windowApplies(windowSec) THEN 100 * Scale - p ELSE 100 * Scale
        badOrder == orderPenalty(recommendedOrder, chosenOrder) * Scale
        b2 == IF badOrder > 0
              THEN Append(b1, [label |-> "Category order not optimal",
                               value |-> badOrder])
              ELSE b1
        s2 == IF badOrder > 0 THEN s1 - badOrder ELSE s1
        s3 == s2 - SumPenalties(finished)
    IN  [score |-> clampScore(s3), breakdown |-> b2]

\* ------------------------------------------------------------------------
\* The component App

\* canStart off by one: a queue of two categories is enough.
canStartMutant == Len(queue) >= 2

canStart == Len(queue) = 3

sortedPreview == sortByFinishQueue(orders, queue)

\* prev.filter(c => c !== cat)
RECURSIVE Without(_, _)
Without(q, cat) ==
    IF q = <<>> THEN <<>>
    ELSE IF q[1] = cat THEN Without(Tail(q), cat)
    ELSE <<q[1]>> \o Without(Tail(q), cat)

includes(q, cat) == \E i \in 1..Len(q) : q[i] = cat

\* toggledQueue putting a new category first: [cat, ...prev].
toggledQueueMutant(prev, cat) ==
    IF includes(prev, cat) THEN Without(prev, cat)
    ELSE IF Len(prev) >= 3 THEN prev
    ELSE <<cat>> \o prev

toggledQueue(prev, cat) ==
    IF includes(prev, cat) THEN Without(prev, cat)
    ELSE IF Len(prev) >= 3 THEN prev
    ELSE Append(prev, cat)

Init ==
    /\ phase = "SETUP"
    /\ orders = generateOrders
    /\ queue = <<>>
    /\ clock = 0
    /\ remaining = <<>>
    /\ timeline = <<>>
    /\ result = Null
    /\ args = Undefined
    /\ ret = Undefined
    /\ auto = Undefined

\* The category tags are rendered only while phase === 'SETUP'.
toggleCategory(cat) ==
    /\ phase = "SETUP"
    /\ queue' = toggledQueue(queue, cat)
    /\ UNCHANGED <<phase, orders, clock, remaining, timeline, result, args, ret,
                   auto>>

\* The reset buttons are rendered in every phase.
resetAll ==
    /\ phase' = "SETUP"
    /\ queue' = <<>>
    /\ clock' = 0
    /\ remaining' = <<>>
    /\ timeline' = <<>>
    /\ orders' = generateOrders
    /\ result' = Null
    /\ UNCHANGED <<args, ret, auto>>

\* The start button is rendered only while phase === 'SETUP', and is
\* disabled unless canStart.
startRound ==
    /\ phase = "SETUP"
    /\ canStart
    /\ phase' = "RUNNING"
    /\ clock' = 0
    /\ timeline' = <<>>
    /\ remaining' = sortedPreview
    /\ UNCHANGED <<orders, queue, result, args, ret, auto>>

\* iceSurfaceOrStandard falling back to large ice.
iceSurfaceOrStandardMutant(d) ==
    IF "iceSurface" \in DOMAIN d /\ d.iceSurface # "null"
    THEN d.iceSurface ELSE "large"

\* d.iceSurface ?? 'standard': the field may be missing or null ("null").
iceSurfaceOrStandard(d) ==
    IF "iceSurface" \in DOMAIN d /\ d.iceSurface # "null"
    THEN d.iceSurface ELSE "standard"

\* d.idealDilution ?? 0.33
idealDilutionOrDefault(d) ==
    IF "idealDilution" \in DOMAIN d THEN d.idealDilution ELSE 3300

\* ------------------------------------------------------------------------
\* The double arithmetic of the dilution penalty
\*
\* The fixed-point dilutionAt above is exact arithmetic. The program
\* computes in IEEE 754 doubles, where the literals 0.004, 0.008, 0.0055, 0.6
\* and 0.33 are the nearest doubles and waitSec * rate is rounded to the
\* nearest double, ties to even. A positive double is written here as the 53
\* bits of its significand, lowest first, with the exponent of the highest
\* bit; zero has no bits.

\* The bits, lowest first, of hexadecimal digits given highest first.
RECURSIVE HexBits(_)
HexBits(hex) ==
    IF hex = <<>> THEN <<>>
    ELSE LET h == hex[Len(hex)]
         IN  <<h % 2, (h \div 2) % 2, (h \div 4) % 2, h \div 8>>
                 \o HexBits(SubSeq(hex, 1, Len(hex) - 1))

\* The double 0x1.<fraction>p<exp>.
DoubleLiteral(fraction, exp) == [bits |-> HexBits(fraction) \o <<1>>, exp |-> exp]

ZeroDouble == [bits |-> <<>>, exp |-> 0]

\* 0.004 = 0x1.0624dd2f1a9fcp-8, 0.008 = 0x1.0624dd2f1a9fcp-7 and
\* 0.0055 = 0x1.6872b020c49bap-8
rateDouble(surface) ==
    IF surface = "large"
    THEN DoubleLiteral(<<0, 6, 2, 4, 13, 13, 2, 15, 1, 10, 9, 15, 12>>, -8)
    ELSE IF surface = "crushed"
    THEN DoubleLiteral(<<0, 6, 2, 4, 13, 13, 2, 15, 1, 10, 9, 15, 12>>, -7)
    ELSE DoubleLiteral(<<6, 8, 7, 2, 11, 0, 2, 0, 12, 4, 9, 11, 10>>, -8)

\* 0.6 = 0x1.3333333333333p-1
capDouble == DoubleLiteral(<<3, 3, 3, 3, 3, 3, 3, 3, 3, 3, 3, 3, 3>>, -1)

\* 0.33 = 0x1.51eb851eb851fp-2, the idealDilution of every drink of the
\* catalog and the default.
idealDouble == DoubleLiteral(<<5, 1, 14, 11, 8, 5, 1, 14, 11, 8, 5, 1, 15>>, -2)

\* The bits of a natural number, lowest first.
RECURSIVE NatBits(_)
NatBits(n) == IF n = 0 THEN <<>> ELSE <<n % 2>> \o NatBits(n \div 2)

\* The bits of (bits * w + carry), exactly.
RECURSIVE TimesBits(_, _, _)
TimesBits(bits, w, carry) ==
    IF bits = <<>> THEN NatBits(carry)
    ELSE LET t == bits[1] * w + carry
         IN  <<t % 2>> \o TimesBits(Tail(bits), w, t \div 2)

\* bits + 1
RECURSIVE Increment(_)
Increment(bits) ==
    IF bits = <<>> THEN <<1>>
    ELSE IF bits[1] = 0 THEN <<1>> \o Tail(bits)
    ELSE <<0>> \o Increment(Tail(bits))

\* An exact significand of 53 bits or more rounded to 53 bits, to nearest
\* and ties to even; exp is the exponent of its highest bit.
roundDouble(bits, exp) ==
    LET s == Len(bits) - 53
        kept == SubSeq(bits, s + 1, Len(bits))
        up == /\ s >= 1
              /\ bits[s] = 1
              /\ kept[1] = 1 \/ \E i \in 1..(s - 1) : bits[i] = 1
        r == IF up THEN Increment(kept) ELSE kept
    IN  IF Len(r) > 53
        THEN [bits |-> Tail(r), exp |-> exp + 1]
        ELSE [bits |-> r, exp |-> exp]

\* waitSec * rate for a whole waitSec > 0
timesDouble(waitSec, x) ==
    LET product == TimesBits(x.bits, waitSec, 0)
    IN  roundDouble(product, x.exp + (Len(product) - 53))

\* x < y for significands of the same length
RECURSIVE bitsLess(_, _)
bitsLess(x, y) ==
    IF x = <<>> THEN FALSE
    ELSE LET n == Len(x)
         IN  IF x[n] # y[n] THEN x[n] < y[n]
             ELSE bitsLess(SubSeq(x, 1, n - 1), SubSeq(y, 1, n - 1))

\* x < y for positive doubles
lessDouble(x, y) ==
    x.exp < y.exp \/ (x.exp = y.exp /\ bitsLess(x.bits, y.bits))

\* Math.min(0.6, Math.max(0, waitSec * rate)) in doubles
dilutionAtDouble(waitSec, surface) ==
    IF waitSec <= 0 THEN ZeroDouble
    ELSE LET product == timesDouble(waitSec, rateDouble(surface))
         IN  IF lessDouble(capDouble, product) THEN capDouble ELSE product

\* Whether the penalty value Math.abs(dilution - ideal) * 80 the program
\* computes for drink d is other than 0: a difference of doubles is 0 only
\* if the two are equal.
dilutionOffTarget(d, wait) ==
    dilutionAtDouble(wait, iceSurfaceOrStandard(d)) # idealDouble

evaluateDrink(d, wait) ==
    IF d.category = "STRAIGHT_UP" THEN
        LET temp == tempAt(wait, d.startTempC, 22, 120)
        IN  [drink |-> d, tempC |-> temp,
             penalties |-> IF temp > 0
                           THEN <<[label |-> "Warm straight-up (>0C)",
                                   value |-> (temp * 12) \div 10]>>
                           ELSE <<>>]
    ELSE IF d.category = "ON_THE_ROCKS" THEN
        LET dilution == dilutionAt(wait, iceSurfaceOrStandard(d))
            ideal == idealDilutionOrDefault(d)
            delta == Abs(dilution - ideal)
        IN  [drink |-> d, tempC |-> d.startTempC * Scale, dilution |-> dilution,
             penalties |-> <<[label |-> "Dilution off target",
                              value |-> (delta * 80)]>>]
    ELSE
        LET temp == tempAt(wait, d.startTempC, 22, 240)
        IN  [drink |-> d, tempC |-> temp,
             penalties |-> IF temp > 12 * Scale
                           THEN <<[label |-> "Unchilled drink lost its cold",
                                   value |-> (temp - 10 * Scale) * 2]>>
                           ELSE <<>>]

\* findIndex with the test inverted: d => d.id !== id.
findIndexMutant(drinks, id) ==
    LET at == {i \in 1..Len(drinks) : drinks[i].id # id}
    IN  IF at = {} THEN -1
        ELSE (CHOOSE i \in at : \A j \in at : i <= j) - 1

\* remaining.findIndex(d => d.id === id): the first index, from 0, or -1.
findIndex(drinks, id) ==
    LET at == {i \in 1..Len(drinks) : drinks[i].id = id}
    IN  IF at = {} THEN -1
        ELSE (CHOOSE i \in at : \A j \in at : i <= j) - 1

\* finishedDrink with finishedAt for waitSec: { ...evald, waitSec: finishedAt,
\* finishedAt }.
finishedDrinkMutant(evald, wait, finishedAt) ==
    IF "dilution" \in DOMAIN evald
    THEN [drink |-> evald.drink, tempC |-> evald.tempC, dilution |-> evald.dilution,
          penalties |-> evald.penalties, waitSec |-> finishedAt,
          finishedAt |-> finishedAt]
    ELSE [drink |-> evald.drink, tempC |-> evald.tempC,
          penalties |-> evald.penalties, waitSec |-> finishedAt,
          finishedAt |-> finishedAt]

\* { ...evald, waitSec: wait, finishedAt }
finishedDrink(evald, wait, finishedAt) ==
    IF "dilution" \in DOMAIN evald
    THEN [drink |-> evald.drink, tempC |-> evald.tempC, dilution |-> evald.dilution,
          penalties |-> evald.penalties, waitSec |-> wait, finishedAt |-> finishedAt]
    ELSE [drink |-> evald.drink, tempC |-> evald.tempC,
          penalties |-> evald.penalties, waitSec |-> wait, finishedAt |-> finishedAt]

\* removeAt keeping the drink: remaining.slice(idx) for slice(idx + 1).
removeAtMutant(drinks, idx) ==
    SubSeq(drinks, 1, idx) \o SubSeq(drinks, idx + 1, Len(drinks))

\* removeAt taking out the drink after the chosen one: the index off by one.
removeAtNextMutant(drinks, idx) ==
    SubSeq(drinks, 1, idx + 1) \o SubSeq(drinks, idx + 3, Len(drinks))

\* [...remaining.slice(0, idx), ...remaining.slice(idx + 1)]
removeAt(drinks, idx) ==
    SubSeq(drinks, 1, idx) \o SubSeq(drinks, idx + 2, Len(drinks))

\* finishedAt without the clock: const finishedAt = d.baseFinishSec.
finishedAtOfMutant(clk, d) == d.baseFinishSec

\* const finishedAt = clock + d.baseFinishSec
finishedAtOf(clk, d) == clk + d.baseFinishSec

\* allFinished off by one: nextRemaining.length <= 1.
allFinishedMutant(nextRemaining) == Len(nextRemaining) <= 1

\* if (nextRemaining.length === 0): everything is finished.
allFinished(nextRemaining) == Len(nextRemaining) = 0

\* windowSecOf measuring from the start of the first drink: its waitSec.
windowSecOfMutant(nextTimeline) ==
    IF Len(nextTimeline) > 1
    THEN nextTimeline[Len(nextTimeline)].finishedAt - nextTimeline[1].waitSec
    ELSE 0

\* const windowSec = nextTimeline.length > 1 ? last.finishedAt -
\* first.finishedAt : 0
windowSecOf(nextTimeline) ==
    IF Len(nextTimeline) > 1
    THEN nextTimeline[Len(nextTimeline)].finishedAt - nextTimeline[1].finishedAt
    ELSE 0

\* The round state a finish handler reads and replaces.
roundState ==
    [phase |-> phase, clock |-> clock, remaining |-> remaining,
     timeline |-> timeline, result |-> result]

\* finishById(id) as the round state it leaves: the state as it is when it
\* returns early, else the values handed to setRemaining, setTimeline,
\* setClock and, after the last drink, setResult and setPhase.
finishByIdState(id) ==
    LET idx == findIndex(remaining, id)
    IN  IF idx < 0 THEN roundState
        ELSE
          LET d == remaining[idx + 1]
              wait == clock
              evald == evaluateDrink(d, wait)
              finishedAt == finishedAtOf(clock, d)
              finished == finishedDrink(evald, wait, finishedAt)
              nextRemaining == removeAt(remaining, idx)
              nextTimeline == Append(timeline, finished)
              totalSec == finishedAt
              windowSec == windowSecOf(nextTimeline)
              sb == scoreRound(nextTimeline, windowSec, queue)
          IN  IF allFinished(nextRemaining)
              THEN [phase |-> "RESULTS", clock |-> finishedAt,
                    remaining |-> nextRemaining, timeline |-> nextTimeline,
                    result |-> [score |-> sb.score, breakdown |-> sb.breakdown,
                                totalSec |-> totalSec, windowSec |-> windowSec]]
              ELSE [phase |-> phase, clock |-> finishedAt,
                    remaining |-> nextRemaining, timeline |-> nextTimeline,
                    result |-> result]

\* if (remaining.length > 0) finishById(remaining[0].id)
finishNextAutoState ==
    IF Len(remaining) > 0 THEN finishByIdState(remaining[1].id) ELSE roundState

\* The ids a caller may pass: those of the catalog and one of no drink.
Ids == {generateOrders[i].id : i \in 1..Len(generateOrders)} \cup {"0"}

setRoundState(s) ==
    /\ phase' = s.phase
    /\ clock' = s.clock
    /\ remaining' = s.remaining
    /\ timeline' = s.timeline
    /\ result' = s.result

finishById(id) ==
    /\ setRoundState(finishByIdState(id))
    /\ UNCHANGED <<orders, queue, args, ret, auto>>

finishNextAuto ==
    /\ setRoundState(finishNextAutoState)
    /\ UNCHANGED <<orders, queue, args, ret, auto>>

Next ==
    \/ \E cat \in Category : toggleCategory(cat)
    \/ resetAll
    \/ startRound
    \/ \E id \in Ids : finishById(id)
    \/ finishNextAuto

Spec == Init /\ [][Next]_vars

\* ------------------------------------------------------------------------
\* simulateFinish (used by the auto-sequential variant of the component)

\* The body of the loop of simulateFinish after the clock is advanced: the
\* penalties and temperature of drink d at `wait`, its dilution, and the
\* FinishedDrink pushed, with finishedAt the advanced clock.
simulatedDrink(d, wait, clockAfter) ==
    LET stTemp == tempAt(wait, d.startTempC, 22, 120)
        dil == dilutionAt(wait, iceSurfaceOrStandard(d))
        ideal == idealDilutionOrDefault(d)
        delta == Abs(dil - ideal)
        ncTemp == tempAt(wait, d.startTempC, 22, 240)
        penalties ==
            IF d.category = "STRAIGHT_UP"
            THEN IF stTemp > 0
                 THEN <<[label |-> "Warm straight-up (>0C)",
                         value |-> (stTemp * 12) \div 10]>>
                 ELSE <<>>
            ELSE IF d.category = "ON_THE_ROCKS"
            THEN <<[label |-> "Dilution off target", value |-> delta * 80]>>
            ELSE IF ncTemp > 12 * Scale
                 THEN <<[label |-> "Unchilled drink lost its cold",
                         value |-> (ncTemp - 10 * Scale) * 2]>>
                 ELSE <<>>
        temp == IF d.category = "STRAIGHT_UP" THEN stTemp
                ELSE IF d.category = "ON_THE_ROCKS" THEN d.startTempC * Scale
                ELSE ncTemp
    IN  IF d.category = "ON_THE_ROCKS"
        THEN [drink |-> d, finishedAt |-> clockAfter, waitSec |-> wait,
              tempC |-> temp,
              dilution |-> dilutionAt(wait, iceSurfaceOrStandard(d)),
              penalties |-> penalties]
        ELSE [drink |-> d, finishedAt |-> clockAfter, waitSec |-> wait,
              tempC |-> temp, penalties |-> penalties]

\* simWaitOf taking the clock after it is advanced.
simWaitOfMutant(clockBefore, d) == clockBefore + d.baseFinishSec

\* const wait = clock, read before clock += d.baseFinishSec
simWaitOf(clockBefore, d) == clockBefore

\* The loop of simulateFinish after its first n drinks.
RECURSIVE simulateLoop(_, _)
simulateLoop(drinksInOrder, n) ==
    IF n = 0 THEN [clock |-> 0, finishTimes |-> <<>>, finished |-> <<>>]
    ELSE LET before == simulateLoop(drinksInOrder, n - 1)
             d == drinksInOrder[n]
             wait == simWaitOf(before.clock, d)
             clockAfter == before.clock + d.baseFinishSec
         IN  [clock |-> clockAfter,
              finishTimes |-> Append(before.finishTimes, clockAfter),
              finished |-> Append(before.finished,
                                  simulatedDrink(d, wait, clockAfter))]

\* Math.max(...finishTimes) and Math.min(...finishTimes) of a list that is
\* not empty.
RECURSIVE MathMax(_)
MathMax(xs) == IF Len(xs) = 1 THEN xs[1] ELSE Max(xs[1], MathMax(Tail(xs)))

RECURSIVE MathMin(_)
MathMin(xs) == IF Len(xs) = 1 THEN xs[1] ELSE Min(xs[1], MathMin(Tail(xs)))

\* simWindowSec without the minimum: the latest finish time alone.
simWindowSecMutant(finishTimes) ==
    IF Len(finishTimes) # 0 THEN MathMax(finishTimes) ELSE 0

\* finishTimes.length ? Math.max(...finishTimes) - Math.min(...finishTimes) : 0
simWindowSec(finishTimes) ==
    IF Len(finishTimes) # 0
    THEN MathMax(finishTimes) - MathMin(finishTimes)
    ELSE 0

simulateFinish(drinksInOrder) ==
    LET end == simulateLoop(drinksInOrder, Len(drinksInOrder))
    IN  [finished |-> end.finished,
         totalSec |-> end.clock,
         windowSec |-> simWindowSec(end.finishTimes)]

\* ------------------------------------------------------------------------
\* The auto-sequential variant of the component
\*
\* It has a cursor where the component above has clock and remaining; a is
\* its state, a record of its six useState values.

\* The variant after construction, and what its resetAll sets.
autoInitial ==
    [phase |-> "SETUP", orders |-> generateOrders, queue |-> <<>>,
     cursor |-> 0, timeline |-> <<>>, result |-> Null]

autoSortedPreview(a) == sortByFinishQueue(a.orders, a.queue)

autoCanStart(a) == Len(a.queue) = 3

autoToggleCategory(a, cat) == [a EXCEPT !.queue = toggledQueue(a.queue, cat)]

autoResetAll(a) == autoInitial

autoStartRound(a) ==
    [a EXCEPT !.phase = "RUNNING", !.cursor = 0, !.timeline = <<>>]

\* simFinishedAt always taking the first entry: sim.finished[0].
simFinishedAtMutant(sim, cursor) == sim.finished[1]

\* sim.finished[cursor], the cursor counting from 0
simFinishedAt(sim, cursor) == sim.finished[cursor + 1]

\* isLastFinish one drink early: cursor + 2 === ordered.length.
isLastFinishMutant(cursor, ordered) == cursor + 2 = Len(ordered)

\* if (cursor + 1 === ordered.length)
isLastFinish(cursor, ordered) == cursor + 1 = Len(ordered)

\* simResult with the window for the total: totalSec: sim.windowSec.
simResultMutant(sim, q) ==
    LET sb == scoreRound(sim.finished, sim.windowSec, q)
    IN  [score |-> sb.score, breakdown |-> sb.breakdown,
         totalSec |-> sim.windowSec, windowSec |-> sim.windowSec]

\* { score, breakdown, totalSec: sim.totalSec, windowSec: sim.windowSec }
simResult(sim, q) ==
    LET sb == scoreRound(sim.finished, sim.windowSec, q)
    IN  [score |-> sb.score, breakdown |-> sb.breakdown,
         totalSec |-> sim.totalSec, windowSec |-> sim.windowSec]

\* finishNext as the state it leaves: a itself when it returns early.
finishNext(a) ==
    LET ordered == autoSortedPreview(a)
    IN  IF a.cursor >= Len(ordered) THEN a
        ELSE
          LET sim == simulateFinish(ordered)
              finished == simFinishedAt(sim, a.cursor)
              partial == Append(a.timeline, finished)
              stepped == [a EXCEPT !.timeline = partial, !.cursor = a.cursor + 1]
          IN  IF isLastFinish(a.cursor, ordered)
              THEN [stepped EXCEPT !.result = simResult(sim, a.queue),
                                   !.phase = "RESULTS"]
              ELSE stepped

\* ------------------------------------------------------------------------
\* Properties of the round (specification Spec)

RemainingIds == {remaining[i].id : i \in 1..Len(remaining)}

Range(q) == {q[i] : i \in 1..Len(q)}

\* C1: in every reachable state, finishById(id) with id among the remaining
\* drinks removes exactly that drink from remaining (the others keep their
\* order), appends one FinishedDrink for it to the timeline (the earlier
\* entries unchanged) with waitSec the clock before and finishedAt the clock
\* after, and advances the clock by that drink's baseFinishSec.
C1_FinishMovesOneDrink ==
    \A id \in Ids :
        id \in RemainingIds =>
            LET s == finishByIdState(id)
                i == CHOOSE k \in 1..Len(remaining) : remaining[k].id = id
                d == remaining[i]
                f == s.timeline[Len(s.timeline)]
            IN  /\ Len(s.remaining) = Len(remaining) - 1
                /\ \A j \in 1..Len(s.remaining) :
                       s.remaining[j] = IF j < i THEN remaining[j] ELSE remaining[j + 1]
                /\ Len(s.timeline) = Len(timeline) + 1
                /\ \A j \in 1..Len(timeline) : s.timeline[j] = timeline[j]
                /\ f.drink = d
                /\ f.waitSec = clock
                /\ f.finishedAt = s.clock
                /\ s.clock = clock + d.baseFinishSec

\* A round in which a drink was finished out of the suggested order, with
\* drinks still remaining.
C1_Witness ==
    /\ phase = "RUNNING"
    /\ Len(timeline) >= 2
    /\ Len(remaining) >= 2
    /\ timeline[1].drink.id # sortedPreview[1].id
    /\ timeline[2].waitSec = timeline[1].finishedAt

\* C2: within a round (no step into or out of SETUP) no step lowers the
\* clock.
C2_ClockMonotonic ==
    [][(phase # "SETUP" /\ phase' # "SETUP") => clock' >= clock]_vars

\* A round in which a long drink was finished before a short one.
C2_Witness ==
    /\ phase = "RUNNING"
    /\ Len(timeline) >= 2
    /\ timeline[1].drink.baseFinishSec > timeline[2].drink.baseFinishSec
    /\ clock = timeline[1].drink.baseFinishSec + timeline[2].drink.baseFinishSec

\* C3: in every reachable state, finishById(id) with id not among the
\* remaining drinks leaves clock, remaining, timeline, phase and result as
\* they are.
C3_UnknownIdNoOp ==
    \A id \in Ids :
        id \notin RemainingIds =>
            LET s == finishByIdState(id)
            IN  /\ s.clock = clock
                /\ s.remaining = remaining
                /\ s.timeline = timeline
                /\ s.phase = phase
                /\ s.result = result

\* A running round with drinks both finished and remaining: the id of no
\* drink and the id of a finished drink are both not among the remaining.
C3_Witness ==
    /\ phase = "RUNNING"
    /\ Len(timeline) >= 1
    /\ Len(remaining) >= 1
    /\ "0" \notin RemainingIds
    /\ timeline[1].drink.id \notin RemainingIds

\* C4: in every state with phase RUNNING or RESULTS the queue is a
\* permutation of the three categories.
C4_StartedRoundHasFullQueue ==
    phase \in {"RUNNING", "RESULTS"} =>
        /\ Len(queue) = 3
        /\ Range(queue) = Category

\* A finished round.
C4_Witness ==
    /\ phase = "RESULTS"
    /\ queue = <<"STRAIGHT_UP", "NON_CHILLED", "ON_THE_ROCKS">>

\* The position of category c in a queue that holds it once.
PlaceOf(q, c) == CHOOSE i \in 1..Len(q) : q[i] = c

\* C5: the queue never holds more than three entries nor a category twice;
\* toggling a category of the queue removes it and keeps the order of the
\* others, toggling an absent category appends it at the end, and toggling
\* an absent category when the queue holds three entries changes nothing.
C5_ToggleKeepsQueueDistinct ==
    /\ Len(queue) <= 3
    /\ \A i, j \in 1..Len(queue) : queue[i] = queue[j] => i = j
    /\ \A cat \in Category :
           LET q2 == toggledQueue(queue, cat)
           IN  IF cat \in Range(queue)
               THEN /\ Len(q2) = Len(queue) - 1
                    /\ Range(q2) = Range(queue) \ {cat}
                    /\ \A i, j \in 1..Len(q2) :
                           i < j => PlaceOf(queue, q2[i]) < PlaceOf(queue, q2[j])
               ELSE IF Len(queue) >= 3
               THEN q2 = queue
               ELSE /\ Len(q2) = Len(queue) + 1
                    /\ q2[Len(q2)] = cat
                    /\ \A i \in 1..Len(queue) : q2[i] = queue[i]

\* A queue of two that toggles built: removing its first entry and
\* appending the missing category are both possible.
C5_Witness ==
    /\ phase = "SETUP"
    /\ queue = <<"STRAIGHT_UP", "NON_CHILLED">>

\* C6: the result is absent while a drink is remaining and present exactly
\* in phase RESULTS; the step that sets it is the step that takes the last
\* drink from remaining, which is also the step from RUNNING to RESULTS; in
\* RESULTS no finish handler changes the result.
C6_ResultDerivedOnce ==
    /\ [](/\ (remaining # <<>> => result = Null)
          /\ (phase = "RESULTS" <=> result # Null)
          /\ (phase = "RESULTS" =>
                 /\ finishNextAutoState.result = result
                 /\ \A id \in Ids : finishByIdState(id).result = result))
    /\ [][/\ (result = Null /\ result' # Null)
                <=> (remaining # <<>> /\ remaining' = <<>> /\ phase' # "SETUP")
          /\ (phase = "RUNNING" /\ phase' = "RESULTS")
                <=> (result = Null /\ result' # Null)
          /\ (result # Null /\ phase' # "SETUP") => result' = result]_vars

\* A finished round: the seven drinks are in the timeline and the result
\* is set.
C6_Witness ==
    /\ phase = "RESULTS"
    /\ remaining = <<>>
    /\ Len(timeline) = 7
    /\ result # Null
    /\ result.totalSec = clock

\* The sum of baseFinishSec of the first n drinks of the timeline.
RECURSIVE TimelineDuration(_)
TimelineDuration(n) ==
    IF n = 0 THEN 0
    ELSE TimelineDuration(n - 1) + timeline[n].drink.baseFinishSec

\* C21: the clock is the sum of baseFinishSec of the drinks in the timeline
\* (0 for an empty timeline) and the finishedAt of its last entry; the first
\* entry has waitSec 0, each later one the finishedAt of the entry before as
\* its waitSec, and the finish times grow strictly along the timeline.
C21_ClockIsTimelineDuration ==
    LET n == Len(timeline)
    IN  /\ clock = TimelineDuration(n)
        /\ n = 0 => clock = 0
        /\ n > 0 => /\ clock = timeline[n].finishedAt
                    /\ timeline[1].waitSec = 0
        /\ \A i \in 2..n :
               /\ timeline[i].waitSec = timeline[i - 1].finishedAt
               /\ timeline[i - 1].finishedAt < timeline[i].finishedAt

\* Three drinks finished out of the suggested order, the round still
\* running.
C21_Witness ==
    /\ phase = "RUNNING"
    /\ Len(timeline) = 3
    /\ timeline[1].drink.id = "7"
    /\ timeline[2].drink.id = "1"
    /\ timeline[3].waitSec = 17
    /\ clock = timeline[3].finishedAt

\* ------------------------------------------------------------------------
\* scoreRound on its own (specification SpecScore): the arguments are drawn
\* from bounded sets, one action evaluates the function.

\* The longest list of finished drinks, and of one drink's penalties.
MaxFinished == 2

MaxPenalties == 1

\* Sequences over S of length at most n.
SeqUpTo(S, n) == UNION {[1..k -> S] : k \in 0..n}

\* Penalty values below zero, small, and larger than the whole score.
PenaltyValues == {0 - 150 * Scale, 75000, 150 * Scale}

PenaltyLists ==
    SeqUpTo([label : {"penalty"}, value : PenaltyValues], MaxPenalties)

\* FinishedDrink records; scoreRound reads their penalties only.
FinishedDrinks ==
    {[drink |-> generateOrders[1], finishedAt |-> 12, waitSec |-> 0,
      tempC |-> 0 - 4 * Scale, penalties |-> ps] : ps \in PenaltyLists}

WindowSecs == {-10, 0, 59, 60, 61, 75, 600}

\* Every Category[] of up to three entries, repetitions included.
ChosenOrders == SeqUpTo(Category, 3)

InitScore ==
    /\ phase = "SETUP"
    /\ orders = generateOrders
    /\ queue = <<>>
    /\ clock = 0
    /\ remaining = <<>>
    /\ timeline = <<>>
    /\ result = Null
    /\ args \in [finished : SeqUpTo(FinishedDrinks, MaxFinished),
                 windowSec : WindowSecs,
                 chosenOrder : ChosenOrders]
    /\ ret = Undefined
    /\ auto = Undefined

scoreRoundCall ==
    /\ ret = Undefined
    /\ ret' = scoreRound(args.finished, args.windowSec, args.chosenOrder)
    /\ UNCHANGED <<phase, orders, queue, clock, remaining, timeline, result, args,
                   auto>>

NextScore == scoreRoundCall

SpecScore == InitScore /\ [][NextScore]_vars

\* The recommended rank of a category: non-chilled, on the rocks, straight up.
Rank(c) == CASE c = "NON_CHILLED" -> 1
             [] c = "ON_THE_ROCKS" -> 2
             [] c = "STRAIGHT_UP" -> 3

\* The pairs of a queue that stand against the recommended order.
Inversions(q) ==
    Cardinality({p \in (1..Len(q)) \X (1..Len(q)) :
                    p[1] < p[2] /\ Rank(q[p[1]]) > Rank(q[p[2]])})

\* The sum of every penalty value of every finished drink.
RECURSIVE TotalPenalties(_)
TotalPenalties(fs) ==
    IF fs = <<>> THEN 0
    ELSE LET last == fs[Len(fs)].penalties
         IN  TotalPenalties(SubSeq(fs, 1, Len(fs) - 1))
                 + (IF Len(last) = 0 THEN 0
                    ELSE TotalPenalties(<<[penalties |-> SubSeq(last, 1, Len(last) - 1)]>>)
                             + last[Len(last)].value)

\* (windowSec - 60) x 0.2 above 60 seconds, else nothing.
WindowDeduction(w) == IF w > 60 THEN (w - 60) * 2000 ELSE 0

\* A number brought into [0, 100].
Clamped(x) == IF x < 0 THEN 0 ELSE IF x > 100 * Scale THEN 100 * Scale ELSE x

WindowEntries(b) == {i \in 1..Len(b) : b[i].label = "Long window between first/last"}

OrderEntries(b) == {i \in 1..Len(b) : b[i].label = "Category order not optimal"}

\* C7: the score scoreRound returns is within [0, 100] whatever the finished
\* drinks, their penalties, the window and the queue.
C7_ScoreClamped ==
    ret # Undefined => (0 <= ret.score /\ ret.score <= 100 * Scale)

\* Penalties far above 100 give score 0.
C7_Witness ==
    /\ ret # Undefined
    /\ TotalPenalties(args.finished) > 100 * Scale
    /\ ret.score = 0

\* C8: the score is 100 less the window penalty, 6 per inversion and every
\* penalty value of every finished drink, clamped to [0, 100]; the breakdown
\* holds nothing but at most one window entry and at most one ordering
\* entry.
C8_ScoreFormula ==
    ret # Undefined =>
        LET raw == 100 * Scale - WindowDeduction(args.windowSec)
                       - 6 * Scale * Inversions(args.chosenOrder)
                       - TotalPenalties(args.finished)
            b == ret.breakdown
        IN  /\ ret.score = Clamped(raw)
            /\ Cardinality(WindowEntries(b)) <= 1
            /\ Cardinality(OrderEntries(b)) <= 1
            /\ (1..Len(b)) = WindowEntries(b) \cup OrderEntries(b)

\* A score strictly inside (0, 100) made of a window penalty, three
\* inversions and a drink's penalty, the breakdown holding the two
\* round-level entries.
C8_Witness ==
    /\ ret # Undefined
    /\ args.windowSec = 75
    /\ args.chosenOrder = <<"STRAIGHT_UP", "ON_THE_ROCKS", "NON_CHILLED">>
    /\ Len(args.finished) = 1
    /\ TotalPenalties(args.finished) = 75000
    /\ ret.score = 100 * Scale - 3 * Scale - 18 * Scale - 75000
    /\ Len(ret.breakdown) = 2

\* The categories of q in the recommended order.
InRecommendedOrder(q) ==
    \A i, j \in 1..Len(q) : i < j => Rank(q[i]) < Rank(q[j])

Distinct(q) == \A i, j \in 1..Len(q) : q[i] = q[j] => i = j

\* C9: for a queue of zero to three distinct categories, the ordering
\* penalty is 0 and the breakdown has no ordering entry exactly when the
\* queue stands in the recommended order of its categories.
C9_OrderPenaltyZeroIff ==
    (ret # Undefined /\ Distinct(args.chosenOrder)) =>
        /\ (orderPenalty(recommendedOrder, args.chosenOrder) = 0)
               <=> InRecommendedOrder(args.chosenOrder)
        /\ (OrderEntries(ret.breakdown) = {})
               <=> InRecommendedOrder(args.chosenOrder)
        /\ \A i \in OrderEntries(ret.breakdown) :
               ret.breakdown[i].value
                   = orderPenalty(recommendedOrder, args.chosenOrder) * Scale

\* The recommended queue itself: no ordering entry.
C9_Witness ==
    /\ ret # Undefined
    /\ args.chosenOrder = <<"NON_CHILLED", "ON_THE_ROCKS", "STRAIGHT_UP">>
    /\ args.finished = <<>>
    /\ args.windowSec = 60
    /\ ret.breakdown = <<>>
    /\ ret.score = 100 * Scale

\* C10: above 60 seconds the breakdown has one window entry of value
\* (windowSec - 60) x 0.2, which is deducted; at 60 seconds or less there is
\* no window entry and nothing is deducted for the window.
C10_WindowPenaltyAbove60 ==
    ret # Undefined =>
        LET b == ret.breakdown
            w == args.windowSec
            rest == 100 * Scale - 6 * Scale * Inversions(args.chosenOrder)
                        - TotalPenalties(args.finished)
        IN  IF w > 60
            THEN /\ Cardinality(WindowEntries(b)) = 1
                 /\ \A i \in WindowEntries(b) : b[i].value = (w - 60) * 2000
                 /\ ret.score = Clamped(rest - (w - 60) * 2000)
            ELSE /\ WindowEntries(b) = {}
                 /\ ret.score = Clamped(rest)

\* A window of exactly 60 seconds: no entry, the score untouched by it.
C10_Witness ==
    /\ ret # Undefined
    /\ args.windowSec = 60
    /\ WindowEntries(ret.breakdown) = {}
    /\ Len(args.finished) = 1
    /\ TotalPenalties(args.finished) = 75000
    /\ args.chosenOrder = <<"NON_CHILLED", "STRAIGHT_UP">>
    /\ ret.score = 100 * Scale - 75000

\* ------------------------------------------------------------------------
\* More properties of the round (specification Spec)

FinishTimes == {timeline[i].finishedAt : i \in 1..Len(timeline)}

\* C11: the windowSec of the result is the latest finish time less the
\* earliest finish time of the finished drinks, whatever the finishing order.
C11_WindowIsMaxMinusMin ==
    result # Null =>
        /\ FinishTimes # {}
        /\ \E hi, lo \in FinishTimes :
               /\ \A t \in FinishTimes : lo <= t /\ t <= hi
               /\ result.windowSec = hi - lo

\* A finished round that did not follow the suggested order and began with
\* a 12 second drink: the window is 60 - 12.
C11_Witness ==
    /\ phase = "RESULTS"
    /\ timeline[1].drink.id # sortedPreview[1].id
    /\ timeline[1].finishedAt = 12
    /\ result.windowSec = 48

\* The drinks of a catalog that are of category c.
OfCategory(catalog, c) == {i \in 1..Len(catalog) : catalog[i].category = c}

\* C19: the catalog the component holds, from the call at construction and
\* from every call by resetAll, is the same list of 7 drinks with distinct
\* ids: two STRAIGHT_UP, three ON_THE_ROCKS of three distinct ice-surface
\* classes, two NON_CHILLED; no step changes it.
C19_CatalogFixed ==
    /\ [](/\ Len(orders) = 7
          /\ \A i, j \in 1..7 : orders[i].id = orders[j].id => i = j
          /\ Cardinality(OfCategory(orders, "STRAIGHT_UP")) = 2
          /\ Cardinality(OfCategory(orders, "ON_THE_ROCKS")) = 3
          /\ Cardinality(OfCategory(orders, "NON_CHILLED")) = 2
          /\ \A i \in OfCategory(orders, "ON_THE_ROCKS") :
                 "iceSurface" \in DOMAIN orders[i]
          /\ {orders[i].iceSurface : i \in OfCategory(orders, "ON_THE_ROCKS")}
                 = {"large", "standard", "crushed"})
    /\ [][orders' = orders]_vars

\* A round started from the catalog: its seven drinks are the remaining ones.
C19_Witness ==
    /\ phase = "RUNNING"
    /\ Len(remaining) = 7
    /\ Range(remaining) = Range(orders)
    /\ timeline = <<>>

\* The ids of the drinks of the timeline.
TimelineIds == {timeline[i].drink.id : i \in 1..Len(timeline)}

\* C20: in a started round the remaining drinks and the drinks of the
\* timeline are disjoint and together are the 7 drinks of the catalog, and
\* no drink is twice in the timeline (nor twice in remaining).
C20_RemainingAndTimelinePartition ==
    phase \in {"RUNNING", "RESULTS"} =>
        /\ Range(remaining) \cap {timeline[i].drink : i \in 1..Len(timeline)} = {}
        /\ RemainingIds \cap TimelineIds = {}
        /\ Range(remaining) \cup {timeline[i].drink : i \in 1..Len(timeline)}
               = Range(orders)
        /\ Len(remaining) + Len(timeline) = 7
        /\ \A i, j \in 1..Len(timeline) :
               timeline[i].drink.id = timeline[j].drink.id => i = j

\* Three drinks finished out of the suggested order, four remaining.
C20_Witness ==
    /\ phase = "RUNNING"
    /\ Len(timeline) = 3
    /\ Len(remaining) = 4
    /\ timeline[1].drink.id # sortedPreview[1].id
    /\ timeline[2].drink.id # sortedPreview[2].id

\* ------------------------------------------------------------------------
\* sortByFinishQueue on its own (specification SpecSort)

\* The longest list of drinks drawn (the whole catalog is drawn besides).
MaxDrinks == 3

\* Lists of different drinks of the catalog, and the catalog itself.
DrinkLists ==
    {l \in SeqUpTo(Range(generateOrders), MaxDrinks) : Distinct(l)}
        \cup {generateOrders}

\* Queues of zero to three different categories.
DistinctQueues == {q \in SeqUpTo(Category, 3) : Distinct(q)}

InitSort ==
    /\ phase = "SETUP"
    /\ orders = generateOrders
    /\ queue = <<>>
    /\ clock = 0
    /\ remaining = <<>>
    /\ timeline = <<>>
    /\ result = Null
    /\ args \in [drinks : DrinkLists, queue : DistinctQueues]
    /\ ret = Undefined
    /\ auto = Undefined

sortByFinishQueueCall ==
    /\ ret = Undefined
    /\ ret' = [value |-> sortByFinishQueue(args.drinks, args.queue)]
    /\ args' = [args EXCEPT !.drinks = drinksAfterSort(args.drinks, args.queue)]
    /\ UNCHANGED <<phase, orders, queue, clock, remaining, timeline, result, auto>>

NextSort == sortByFinishQueueCall

SpecSort == InitSort /\ [][NextSort]_vars

\* The priority of a category: its place in the queue from 0, 99 if absent.
Priority(q, c) == IF c \in Range(q) THEN PlaceOf(q, c) - 1 ELSE 99

\* C12: sortByFinishQueue returns a permutation of drinks ordered by the
\* place of the category in the queue (absent categories last, as priority
\* 99), then by baseFinishSec ascending; drinks equal in both keep their
\* order of the input; the input list is left as it was.
C12_SortByFinishQueue ==
    /\ [](ret # Undefined =>
            LET r == ret.value
                l == args.drinks
                q == args.queue
            IN  /\ Len(r) = Len(l)
                /\ Range(r) = Range(l)
                /\ \A i, j \in 1..Len(r) :
                       i < j =>
                           LET pi == Priority(q, r[i].category)
                               pj == Priority(q, r[j].category)
                           IN  /\ pi <= pj
                               /\ r[i].category \notin Range(q)
                                      => r[j].category \notin Range(q)
                               /\ pi = pj => r[i].baseFinishSec <= r[j].baseFinishSec
                               /\ (pi = pj /\ r[i].baseFinishSec = r[j].baseFinishSec)
                                      => PlaceOf(l, r[i]) < PlaceOf(l, r[j]))
    /\ [][args'.drinks = args.drinks]_vars

\* The catalog sorted by a queue of one category: the on-the-rocks drinks
\* first by duration, the drinks of the absent categories after them by
\* duration, ties in catalog order.
C12_Witness ==
    /\ ret # Undefined
    /\ args.drinks = generateOrders
    /\ args.queue = <<"ON_THE_ROCKS">>
    /\ [i \in 1..7 |-> ret.value[i].id] = <<"4", "5", "3", "6", "7", "1", "2">>

\* ------------------------------------------------------------------------
\* simulateFinish on its own (specification SpecSim)

\* The lists of SpecSort and the suggested order of every queue.
SimLists ==
    DrinkLists \cup {sortByFinishQueue(generateOrders, q) : q \in DistinctQueues}

InitSim ==
    /\ phase = "SETUP"
    /\ orders = generateOrders
    /\ queue = <<>>
    /\ clock = 0
    /\ remaining = <<>>
    /\ timeline = <<>>
    /\ result = Null
    /\ args \in [drinksInOrder : SimLists]
    /\ ret = Undefined
    /\ auto = Undefined

simulateFinishCall ==
    /\ ret = Undefined
    /\ ret' = simulateFinish(args.drinksInOrder)
    /\ UNCHANGED <<phase, orders, queue, clock, remaining, timeline, result, args,
                   auto>>

NextSim == simulateFinishCall

SpecSim == InitSim /\ [][NextSim]_vars

\* The sum of baseFinishSec of the first n drinks of a list.
RECURSIVE DurationSum(_, _)
DurationSum(l, n) ==
    IF n = 0 THEN 0 ELSE DurationSum(l, n - 1) + l[n].baseFinishSec

\* C13: simulateFinish gives one FinishedDrink per drink in input order, the
\* i-th with waitSec the sum of baseFinishSec of the drinks before it and
\* finishedAt = waitSec + its own baseFinishSec; totalSec is the sum of all.
C13_SimulateFinishTimeline ==
    ret # Undefined =>
        LET l == args.drinksInOrder
            f == ret.finished
        IN  /\ Len(f) = Len(l)
            /\ \A i \in 1..Len(l) :
                   /\ f[i].drink = l[i]
                   /\ f[i].waitSec = DurationSum(l, i - 1)
                   /\ f[i].finishedAt = f[i].waitSec + l[i].baseFinishSec
            /\ ret.totalSec = DurationSum(l, Len(l))

\* The whole catalog in catalog order: the last drink waits 55 seconds and
\* finishes at 60.
C13_Witness ==
    /\ ret # Undefined
    /\ args.drinksInOrder = generateOrders
    /\ Len(ret.finished) = 7
    /\ ret.finished[7].waitSec = 55
    /\ ret.finished[7].finishedAt = 60
    /\ ret.totalSec = 60

\* C14: the windowSec of simulateFinish is the latest less the earliest
\* finish time of its drinks, and 0 for no drink or one drink.
C14_SimulateFinishWindow ==
    ret # Undefined =>
        LET f == ret.finished
            times == {f[i].finishedAt : i \in 1..Len(f)}
        IN  /\ Len(f) <= 1 => ret.windowSec = 0
            /\ Len(f) >= 1 =>
                   \E hi, lo \in times :
                       /\ \A t \in times : lo <= t /\ t <= hi
                       /\ ret.windowSec = hi - lo

\* One drink: a window of 0 although the drink finishes at 12.
C14_Witness ==
    /\ ret # Undefined
    /\ Len(args.drinksInOrder) = 1
    /\ ret.finished[1].finishedAt = 12
    /\ ret.windowSec = 0

\* ------------------------------------------------------------------------
\* dilutionAt on its own (specification SpecDilution)

\* Wait times run from -MaxWait to MaxWait seconds; large ice reaches the cap
\* at 150 seconds.
MaxWait == 160

WaitTimes == (0 - MaxWait)..MaxWait

\* 'large' | 'standard' | 'crushed' | null
Surfaces == {"large", "standard", "crushed", "null"}

InitDilution ==
    /\ phase = "SETUP"
    /\ orders = generateOrders
    /\ queue = <<>>
    /\ clock = 0
    /\ remaining = <<>>
    /\ timeline = <<>>
    /\ result = Null
    /\ args \in [waitSec : WaitTimes, surface : Surfaces]
    /\ ret = Undefined
    /\ auto = Undefined

dilutionAtCall ==
    /\ ret = Undefined
    /\ ret' = [value |-> dilutionAt(args.waitSec, args.surface)]
    /\ UNCHANGED <<phase, orders, queue, clock, remaining, timeline, result, args,
                   auto>>

NextDilution == dilutionAtCall

SpecDilution == InitDilution /\ [][NextDilution]_vars

\* C15: for every wait time, negative ones included, and every ice class,
\* null included, dilutionAt lies between 0 and 0.6; at wait 0 it is 0.
C15_DilutionWithinBounds ==
    ret # Undefined =>
        /\ 0 <= ret.value
        /\ ret.value <= (6 * Scale) \div 10
        /\ args.waitSec = 0 => ret.value = 0

\* A negative wait on a null ice class gives 0.
C15_Witness ==
    /\ ret # Undefined
    /\ args.waitSec < 0
    /\ args.surface = "null"
    /\ ret.value = 0

\* C16 as stated: for every positive wait, large ice dilutes strictly less
\* than crushed ice.
C16_LargeStrictlyBelowCrushed ==
    (ret # Undefined /\ args.surface = "large" /\ args.waitSec > 0) =>
        ret.value < dilutionAt(args.waitSec, "crushed")

\* C16: for a wait of 1 to 149 seconds large ice dilutes strictly less than
\* crushed ice; from 150 seconds on both are at the cap 0.6 and equal.
C16_LargeBelowCrushedUntilCap ==
    (ret # Undefined /\ args.surface = "large" /\ args.waitSec > 0) =>
        LET crushed == dilutionAt(args.waitSec, "crushed")
            cap == (6 * Scale) \div 10
        IN  /\ args.waitSec < 150 => ret.value < crushed
            /\ args.waitSec >= 150 => ret.value = cap /\ crushed = cap

\* Large ice at 150 seconds: 0.6, as much as crushed ice.
C16_Witness ==
    /\ ret # Undefined
    /\ args.surface = "large"
    /\ args.waitSec = 150
    /\ ret.value = dilutionAt(150, "crushed")

\* ------------------------------------------------------------------------
\* tempAt on its own (specification SpecTemp)

\* The start temperatures of the catalog, the ambient temperature and one
\* above it.
StartTemps == {-4, -3, 0, 6, 7, 22, 30}

\* The time constants of the two uses of tempAt.
TimeConstants == {120, 240}

InitTemp ==
    /\ phase = "SETUP"
    /\ orders = generateOrders
    /\ queue = <<>>
    /\ clock = 0
    /\ remaining = <<>>
    /\ timeline = <<>>
    /\ result = Null
    /\ args \in [waitSec : WaitTimes, T0 : StartTemps, ambient : {22},
                 tauSec : TimeConstants]
    /\ ret = Undefined
    /\ auto = Undefined

tempAtCall ==
    /\ ret = Undefined
    /\ ret' = [value |-> tempAt(args.waitSec, args.T0, args.ambient, args.tauSec)]
    /\ UNCHANGED <<phase, orders, queue, clock, remaining, timeline, result, args,
                   auto>>

NextTemp == tempAtCall

SpecTemp == InitTemp /\ [][NextTemp]_vars

\* tempAt one second after the wait of the call.
OneSecondLater ==
    tempAt(args.waitSec + 1, args.T0, args.ambient, args.tauSec)

\* C18 as stated: with startTemp < ambient, tempAt never rises as the wait
\* grows from 0; tempAt(0) is T0; a negative wait counts as 0.
C18_TempNonIncreasing ==
    ret # Undefined =>
        /\ (args.T0 < args.ambient /\ args.waitSec >= 0) =>
               OneSecondLater <= ret.value
        /\ args.waitSec <= 0 => ret.value = args.T0 * Scale

\* C18: with startTemp < ambient, tempAt never falls as the wait grows from
\* 0 and never exceeds ambient; tempAt(0) is T0; a negative wait counts as 0.
C18_TempNonDecreasingToAmbient ==
    ret # Undefined =>
        /\ (args.T0 < args.ambient /\ args.waitSec >= 0) =>
               /\ ret.value <= OneSecondLater
               /\ OneSecondLater <= args.ambient * Scale
        /\ args.waitSec <= 0 => ret.value = args.T0 * Scale

\* A drink of -4 degrees after 120 seconds with time constant 120: about
\* 12.43 degrees, well above where it started.
C18_Witness ==
    /\ ret # Undefined
    /\ args = [waitSec |-> 120, T0 |-> -4, ambient |-> 22, tauSec |-> 120]
    /\ ret.value > 12 * Scale
    /\ ret.value < 13 * Scale

\* ------------------------------------------------------------------------
\* The evaluation of one drink (specification SpecEval)

\* The record d without one of its fields.
Omit(d, field) == [f \in DOMAIN d \ {field} |-> d[f]]

\* The drinks of the catalog, and the on-ice drinks with iceSurface missing,
\* with iceSurface null, and with idealDilution missing.
EvalDrinks ==
    LET catalog == {generateOrders[i] : i \in 1..Len(generateOrders)}
        onIce == {d \in catalog : d.category = "ON_THE_ROCKS"}
    IN  catalog
            \cup {Omit(d, "iceSurface") : d \in onIce}
            \cup {[d EXCEPT !.iceSurface = "null"] : d \in onIce}
            \cup {Omit(d, "idealDilution") : d \in onIce}

InitEval ==
    /\ phase = "SETUP"
    /\ orders = generateOrders
    /\ queue = <<>>
    /\ clock = 0
    /\ remaining = <<>>
    /\ timeline = <<>>
    /\ result = Null
    /\ args \in [d : EvalDrinks, wait : WaitTimes]
    /\ ret = Undefined
    /\ auto = Undefined

\* evaluateDrink(d, wait), and the FinishedDrink simulateFinish pushes for a
\* drink d that it reaches at clock = wait.
evaluateCall ==
    /\ ret = Undefined
    /\ ret' = [free |-> evaluateDrink(args.d, args.wait),
               sim |-> simulatedDrink(args.d, args.wait,
                                      args.wait + args.d.baseFinishSec)]
    /\ UNCHANGED <<phase, orders, queue, clock, remaining, timeline, result, args,
                   auto>>

NextEval == evaluateCall

SpecEval == InitEval /\ [][NextEval]_vars

\* iceSurface or 'standard', idealDilution or 0.33, and the magnitude
\* |dilutionAt(wait, surface) - ideal| x 80 of the drink of the call.
SurfaceOfCall ==
    IF "iceSurface" \in DOMAIN args.d /\ args.d.iceSurface # "null"
    THEN args.d.iceSurface ELSE "standard"

IdealOfCall ==
    IF "idealDilution" \in DOMAIN args.d
    THEN args.d.idealDilution ELSE (33 * Scale) \div 100

MagnitudeOfCall ==
    Abs(dilutionAt(args.wait, SurfaceOfCall) - IdealOfCall) * 80

\* The call of the scenario: standard ice, wait 60, ideal 0.33.
OnTargetCall ==
    /\ args.d.category = "ON_THE_ROCKS"
    /\ SurfaceOfCall = "standard"
    /\ IdealOfCall = (33 * Scale) \div 100
    /\ args.wait = 60

\* An on-ice drink gets one penalty of the magnitude above and a dilution;
\* the other drinks get no dilution and at most one penalty; evaluateDrink
\* and simulateFinish give the same temperature, dilution and penalties.
EvaluationShape ==
    LET e == ret.free
        s == ret.sim
    IN  /\ args.d.category = "ON_THE_ROCKS" =>
               /\ Len(e.penalties) = 1
               /\ e.penalties[1].value = MagnitudeOfCall
               /\ "dilution" \in DOMAIN e
               /\ e.dilution = dilutionAt(args.wait, SurfaceOfCall)
        /\ args.d.category # "ON_THE_ROCKS" =>
               /\ "dilution" \notin DOMAIN e
               /\ Len(e.penalties) <= 1
        /\ s.drink = e.drink
        /\ s.tempC = e.tempC
        /\ s.penalties = e.penalties
        /\ ("dilution" \in DOMAIN s) = ("dilution" \in DOMAIN e)
        /\ "dilution" \in DOMAIN e => s.dilution = e.dilution

\* C17 as stated: the evaluation has the shape above, and for standard ice
\* at wait 60 with ideal 0.33 the penalty value the program computes is 0.
C17_OnTargetPenaltyIsZero ==
    ret # Undefined =>
        /\ EvaluationShape
        /\ OnTargetCall => ~dilutionOffTarget(args.d, args.wait)

\* C17: the evaluation has the shape above; for standard ice at wait 60 with
\* ideal 0.33 the magnitude is 0 in exact arithmetic, but the value the
\* program computes in doubles is not 0, since 60 * 0.0055 rounds to a double
\* below 0.33.
C17_OnTargetPenaltyIsResidue ==
    ret # Undefined =>
        /\ EvaluationShape
        /\ OnTargetCall =>
               /\ MagnitudeOfCall = 0
               /\ dilutionOffTarget(args.d, args.wait)

\* The Whiskey Highball (standard ice, ideal 0.33) evaluated at wait 60.
C17_Witness ==
    /\ ret # Undefined
    /\ args.d = generateOrders[4]
    /\ args.wait = 60
    /\ Len(ret.free.penalties) = 1
    /\ ret.free.penalties[1].value = 0
    /\ ret.sim.penalties = ret.free.penalties
    /\ dilutionOffTarget(args.d, args.wait)

\* ------------------------------------------------------------------------
\* The two modes side by side (specification SpecModes)
\*
\* Both components are mounted and every click goes to both: a category tag,
\* the start button, the reset button, and a finish button, which for the
\* component above is "finish now" of one remaining drink or "Finish Next"
\* and for the variant its one "Finish Next".

InitModes ==
    /\ phase = "SETUP"
    /\ orders = generateOrders
    /\ queue = <<>>
    /\ clock = 0
    /\ remaining = <<>>
    /\ timeline = <<>>
    /\ result = Null
    /\ args = Undefined
    /\ ret = Undefined
    /\ auto = autoInitial

toggleCategoryBoth(cat) ==
    /\ phase = "SETUP"
    /\ auto.phase = "SETUP"
    /\ queue' = toggledQueue(queue, cat)
    /\ auto' = autoToggleCategory(auto, cat)
    /\ UNCHANGED <<phase, orders, clock, remaining, timeline, result, args, ret>>

resetAllBoth ==
    /\ phase' = "SETUP"
    /\ queue' = <<>>
    /\ clock' = 0
    /\ remaining' = <<>>
    /\ timeline' = <<>>
    /\ orders' = generateOrders
    /\ result' = Null
    /\ auto' = autoResetAll(auto)
    /\ UNCHANGED <<args, ret>>

startRoundBoth ==
    /\ phase = "SETUP"
    /\ auto.phase = "SETUP"
    /\ canStart
    /\ autoCanStart(auto)
    /\ phase' = "RUNNING"
    /\ clock' = 0
    /\ timeline' = <<>>
    /\ remaining' = sortedPreview
    /\ auto' = autoStartRound(auto)
    /\ UNCHANGED <<orders, queue, result, args, ret>>

\* The finish buttons are rendered only while phase === 'RUNNING', "finish
\* now" once for each remaining drink.
finishByIdBoth(id) ==
    /\ phase = "RUNNING"
    /\ \E i \in 1..Len(remaining) : remaining[i].id = id
    /\ setRoundState(finishByIdState(id))
    /\ auto' = finishNext(auto)
    /\ UNCHANGED <<orders, queue, args, ret>>

finishNextBoth ==
    /\ phase = "RUNNING"
    /\ setRoundState(finishNextAutoState)
    /\ auto' = finishNext(auto)
    /\ UNCHANGED <<orders, queue, args, ret>>

NextModes ==
    \/ \E cat \in Category : toggleCategoryBoth(cat)
    \/ resetAllBoth
    \/ startRoundBoth
    \/ \E id \in Ids : finishByIdBoth(id)
    \/ finishNextBoth

SpecModes == InitModes /\ [][NextModes]_vars

\* What a completed round of the fixed catalog reports, r being the result
\* and first the first entry of the timeline.
FixedCatalogTimes(r, first) ==
    /\ r.totalSec = 60
    /\ r.windowSec = 60 - first.drink.baseFinishSec
    /\ r.windowSec <= 55
    /\ WindowEntries(r.breakdown) = {}

\* C22: with the fixed catalog every completed round, in either mode, in
\* any finishing order and for any queue, has totalSec 60 and a windowSec of
\* 60 less the duration of the first finished drink, at most 55, so no
\* result has a window-penalty entry.
C22_NoWindowPenalty ==
    /\ result # Null => FixedCatalogTimes(result, timeline[1])
    /\ auto.result # Null => FixedCatalogTimes(auto.result, auto.timeline[1])

\* A round that finished a 5-second drink first: the widest window, 55.
C22_Witness ==
    /\ phase = "RESULTS"
    /\ result.totalSec = 60
    /\ result.windowSec = 55
    /\ auto.result.totalSec = 60
    /\ auto.result.windowSec < 55

\* The round so far took, at every finish, the first remaining drink: what
\* finishNextAuto does.
FollowsSuggestedOrder ==
    \A i \in 1..Len(timeline) : timeline[i].drink = sortedPreview[i]

\* Two timeline entries with the same drink, waitSec, finishedAt, dilution
\* and penalties.
SameEntry(e, f) ==
    /\ e.drink = f.drink
    /\ e.waitSec = f.waitSec
    /\ e.finishedAt = f.finishedAt
    /\ ("dilution" \in DOMAIN e) = ("dilution" \in DOMAIN f)
    /\ "dilution" \in DOMAIN e => e.dilution = f.dilution
    /\ e.penalties = f.penalties

\* C23: for every queue of the three categories, while the free-choice round
\* follows the suggested order its timeline has, after each step, the same
\* entries as the timeline of the variant, and at the end the two results
\* have the same score, breakdown, totalSec and windowSec.
C23_ModesAgree ==
    (phase # "SETUP" /\ FollowsSuggestedOrder) =>
        /\ Len(auto.timeline) = Len(timeline)
        /\ \A i \in 1..Len(timeline) : SameEntry(timeline[i], auto.timeline[i])
        /\ auto.phase = phase
        /\ phase = "RUNNING" => result = Null /\ auto.result = Null
        /\ phase = "RESULTS" =>
               /\ auto.result.score = result.score
               /\ auto.result.breakdown = result.breakdown
               /\ auto.result.totalSec = result.totalSec
               /\ auto.result.windowSec = result.windowSec

\* A round finished in the suggested order of a queue that is not the
\* recommended one, so that the breakdown has an ordering entry.
C23_Witness ==
    /\ phase = "RESULTS"
    /\ queue = <<"STRAIGHT_UP", "ON_THE_ROCKS", "NON_CHILLED">>
    /\ FollowsSuggestedOrder
    /\ Len(auto.timeline) = 7
    /\ OrderEntries(result.breakdown) # {}
    /\ auto.result = result

\* C24: a started round ends after exactly 7 finishes. Right after
\* startRound nothing is finished; while the round is RUNNING fewer than 7
\* drinks are finished and a finish action can be taken in each mode; every
\* step of a running round other than resetAll finishes exactly one more
\* drink in each mode, so the number still to finish falls by one; the phase
\* is RESULTS exactly when 7 are finished, and then no finish handler changes
\* the state and only resetAll leaves RESULTS.
C24_RoundTerminates ==
    /\ [](/\ auto.phase = phase
          /\ phase = "RUNNING" =>
                 /\ Len(timeline) < 7
                 /\ auto.cursor < 7
                 /\ Len(remaining) = 7 - Len(timeline)
                 /\ \A i \in 1..Len(remaining) :
                        finishByIdState(remaining[i].id) # roundState
                 /\ finishNextAutoState # roundState
                 /\ finishNext(auto) # auto
          /\ phase = "RESULTS" =>
                 /\ Len(timeline) = 7
                 /\ auto.cursor = 7
                 /\ \A id \in Ids : finishByIdState(id) = roundState
                 /\ finishNextAutoState = roundState
                 /\ finishNext(auto) = auto)
    /\ [][/\ (phase = "SETUP" /\ phase' = "RUNNING") =>
                 Len(timeline') = 0 /\ auto'.cursor = 0
          /\ (phase = "RUNNING" /\ phase' # "SETUP") =>
                 /\ Len(timeline') = Len(timeline) + 1
                 /\ auto'.cursor = auto.cursor + 1
                 /\ Len(auto'.timeline) = auto'.cursor
                 /\ phase' = "RESULTS" <=> Len(timeline') = 7
          /\ phase = "RESULTS" => phase' = "SETUP"]_vars

\* A round that reached RESULTS by finishing out of the suggested order.
C24_Witness ==
    /\ phase = "RESULTS"
    /\ auto.phase = "RESULTS"
    /\ Len(timeline) = 7
    /\ auto.cursor = 7
    /\ ~FollowsSuggestedOrder

=============================================================================
